---- MODULE Spec2Model ----
(***************************************************************************)
(* Model of the JNTUH results server: the catalog filter (filter_results)  *)
(* and the result generation workflow (mcp_generate_result in app.py,      *)
(* get_result_pdf in mcp.py).  Text is modelled as sequences of one-       *)
(* character strings so that split, substring search, case folding and     *)
(* f-string concatenation are computed the way Python computes them.       *)
(***************************************************************************)
EXTENDS Integers, Sequences, FiniteSets, TLC

VARIABLES entry, catalog, files, now, ncalls, last, published, found, facets

vars == <<entry, catalog, files, now, ncalls, last, published, found, facets>>

(***************************************************************************)
(* Bounds of the model.                                                    *)
(***************************************************************************)
MaxCalls == 2
MaxTime == 1

(***************************************************************************)
(* Python text primitives.                                                 *)
(***************************************************************************)
UpperChars == <<"A","B","C","D","E","F","G","H","I","J","K","L","M","N","O","P","Q","R","S","T","U","V","W","X","Y","Z">>
LowerChars == <<"a","b","c","d","e","f","g","h","i","j","k","l","m","n","o","p","q","r","s","t","u","v","w","x","y","z">>
DigitChars == <<"0","1","2","3","4","5","6","7","8","9">>

LowerChar(c) ==
  IF \E i \in 1..26 : UpperChars[i] = c
  THEN LowerChars[CHOOSE i \in 1..26 : UpperChars[i] = c]
  ELSE c

UpperChar(c) ==
  IF \E i \in 1..26 : LowerChars[i] = c
  THEN UpperChars[CHOOSE i \in 1..26 : LowerChars[i] = c]
  ELSE c

\* str.lower()
RECURSIVE lower(_)
lower(s) == IF s = <<>> THEN <<>> ELSE <<LowerChar(Head(s))>> \o lower(Tail(s))

\* str.upper()
RECURSIVE upper(_)
upper(s) == IF s = <<>> THEN <<>> ELSE <<UpperChar(Head(s))>> \o upper(Tail(s))

\* sub in s
Contains(s, sub) ==
  \E i \in 0..(Len(s) - Len(sub)) : SubSeq(s, i + 1, i + Len(sub)) = sub

\* c in s, for a one-character c
HasChar(s, c) == \E i \in 1..Len(s) : s[i] = c

\* the positions of the one-character separator c in s
Positions(s, c) == {i \in 1..Len(s) : s[i] = c}

\* s.split(c): the pieces between consecutive separators
split(s, c) ==
  LET seps == Positions(s, c)
      n == Cardinality(seps)
      pos(k) == IF k = 0 THEN 0
                ELSE IF k = n + 1 THEN Len(s) + 1
                ELSE CHOOSE i \in seps : Cardinality({j \in seps : j < i}) = k - 1
  IN  [k \in 1..(n + 1) |-> SubSeq(s, pos(k - 1) + 1, pos(k) - 1)]

\* s.split(c, 1): cut at the first separator only
split1(s, c) ==
  LET seps == Positions(s, c)
      first == CHOOSE i \in seps : \A j \in seps : i <= j
  IN  IF seps = {} THEN <<s>> ELSE <<SubSeq(s, 1, first - 1), SubSeq(s, first + 1, Len(s))>>

\* str(n) for an integer n >= 0
RECURSIVE Digits(_)
Digits(n) == IF n < 10 THEN <<DigitChars[n + 1]>> ELSE Digits(n \div 10) \o <<DigitChars[(n % 10) + 1]>>

\* "%02d"
Pad2(n) == IF n < 10 THEN <<"0">> \o Digits(n) ELSE Digits(n)

(***************************************************************************)
(* Python / pandas values: a string, an integer, NaN (an empty CSV cell)   *)
(* or None (a missing JSON key or an omitted argument).                    *)
(***************************************************************************)
S(s) == [t |-> "str", s |-> s, n |-> 0]
I(n) == [t |-> "int", s |-> <<>>, n |-> n]
NaN == [t |-> "nan", s |-> <<>>, n |-> 0]
None == [t |-> "none", s |-> <<>>, n |-> 0]

\* str(v), Series.astype(str)
py_str(v) ==
  CASE v.t = "str" -> v.s
    [] v.t = "int" -> Digits(v.n)
    [] v.t = "nan" -> <<"n","a","n">>
    [] v.t = "none" -> <<"N","o","n","e">>

\* bool(v)
truthy(v) ==
  CASE v.t = "str" -> v.s # <<>>
    [] v.t = "int" -> v.n # 0
    [] v.t = "nan" -> TRUE
    [] v.t = "none" -> FALSE

\* pd.notna(v)
notna(v) == v.t # "nan"

\* Series.str.lower() == x  (NaN compares unequal to everything)
str_lower_eq(cell, x) == cell.t = "str" /\ lower(cell.s) = x

\* Series == x
cell_eq(cell, x) == cell.t = "str" /\ cell.s = x

\* Series.str.contains(pat, case=False, na=False) for a literal pat
str_contains_nocase(cell, pat) == cell.t = "str" /\ Contains(lower(cell.s), lower(pat))

(***************************************************************************)
(* Text literals of the source.                                            *)
(***************************************************************************)
L_BTech == <<"B","T","e","c","h">>
L_BPharmacy == <<"B",".","P","h","a","r","m","a","c","y">>
L_MTech == <<"M","T","e","c","h">>
L_MPharmacy == <<"M",".","P","h","a","r","m","a","c","y">>
L_btech == <<"b","t","e","c","h">>
L_be == <<"b",".","e">>
L_bpharmacy == <<"b","p","h","a","r","m","a","c","y">>
L_mtech == <<"m","t","e","c","h">>
L_mpharmacy == <<"m","p","h","a","r","m","a","c","y">>
L_Regular == <<"R","e","g","u","l","a","r">>
L_regular == <<"r","e","g","u","l","a","r">>
L_Supplementary == <<"S","u","p","p","l","e","m","e","n","t","a","r","y">>
L_supplementary == <<"s","u","p","p","l","e","m","e","n","t","a","r","y">>
L_Yes == <<"Y","e","s">>
L_No == <<"N","o">>
L_RC_RV == <<"R","C","/","R","V">>
L_RCRV == <<"R","C","R","V">>

(***************************************************************************)
(* The catalog: the DataFrame read from jntuh_results.csv, a sequence of   *)
(* rows.  Search criteria: a dictionary from a subset of FilterKeys.       *)
(***************************************************************************)
FilterKeys == {"degree_type", "year", "semester", "regulation", "exam_type", "rc_rv"}

\* 'k' in filters and filters['k']
app_given(filters, k) == k \in DOMAIN filters /\ truthy(filters[k])

app_degree_step(df, filters) ==
  IF app_given(filters, "degree_type")
  THEN CASE filters["degree_type"] = S(L_BTech) ->
              SelectSeq(df, LAMBDA r : str_lower_eq(r.degree, L_btech) \/ str_lower_eq(r.degree, L_be))
         [] filters["degree_type"] = S(L_BPharmacy) ->
              SelectSeq(df, LAMBDA r : str_lower_eq(r.degree, L_bpharmacy))
         [] filters["degree_type"] = S(L_MTech) ->
              SelectSeq(df, LAMBDA r : str_lower_eq(r.degree, L_mtech))
         [] filters["degree_type"] = S(L_MPharmacy) ->
              SelectSeq(df, LAMBDA r : str_lower_eq(r.degree, L_mpharmacy))
         [] OTHER -> df
  ELSE df

app_year_step_empty_counts(df, filters) ==
  IF "year" \in DOMAIN filters /\ filters["year"].t = "str"
  THEN SelectSeq(df, LAMBDA r : str_lower_eq(r.Year, lower(filters["year"].s)))
  ELSE df

app_year_step(df, filters) ==
  IF app_given(filters, "year")
  THEN SelectSeq(df, LAMBDA r : str_lower_eq(r.Year, lower(filters["year"].s)))
  ELSE df

app_semester_step(df, filters) ==
  IF app_given(filters, "semester")
  THEN SelectSeq(df, LAMBDA r : str_lower_eq(r.Semester, lower(filters["semester"].s)))
  ELSE df

app_regulation_step(df, filters) ==
  IF app_given(filters, "regulation")
  THEN SelectSeq(df, LAMBDA r : str_lower_eq(r.Regulation, lower(filters["regulation"].s)))
  ELSE df

app_exam_type_step(df, filters) ==
  IF app_given(filters, "exam_type")
  THEN CASE filters["exam_type"] = S(L_Regular) ->
              SelectSeq(df, LAMBDA r : str_lower_eq(r.Exam_Type, L_regular))
         [] filters["exam_type"] = S(L_Supplementary) ->
              SelectSeq(df, LAMBDA r : str_contains_nocase(r.Exam_Type, L_supplementary))
         [] OTHER -> df
  ELSE df

rc_rv_title(r) == str_contains_nocase(r.Title, L_RC_RV) \/ str_contains_nocase(r.Title, L_RCRV)

app_rc_rv_step_case_sensitive(df, filters) ==
  IF app_given(filters, "rc_rv") /\ filters["rc_rv"] = S(L_Yes)
  THEN SelectSeq(df, LAMBDA r : r.Title.t = "str"
                                 /\ (Contains(r.Title.s, L_RC_RV) \/ Contains(r.Title.s, L_RCRV)))
  ELSE df

app_rc_rv_step(df, filters) ==
  IF app_given(filters, "rc_rv") /\ filters["rc_rv"] = S(L_Yes)
  THEN SelectSeq(df, LAMBDA r : rc_rv_title(r))
  ELSE df

\* app.py filter_results
app_filter_results(df, filters) ==
  app_rc_rv_step(
    app_exam_type_step(
      app_regulation_step(
        app_semester_step(
          app_year_step(
            app_degree_step(df, filters), filters), filters), filters), filters), filters)

\* mcp.py filter_results takes keyword arguments, None when omitted
mcp_arg(filters, k) == IF k \in DOMAIN filters THEN filters[k] ELSE None

mcp_degree_step(df, degree_type) ==
  IF truthy(degree_type)
  THEN SelectSeq(df, LAMBDA r : cell_eq(r.degree, lower(degree_type.s)))
  ELSE df

mcp_year_step(df, year) ==
  IF truthy(year) THEN SelectSeq(df, LAMBDA r : cell_eq(r.Year, year.s)) ELSE df

mcp_semester_step(df, semester) ==
  IF truthy(semester) THEN SelectSeq(df, LAMBDA r : cell_eq(r.Semester, semester.s)) ELSE df

mcp_regulation_step(df, regulation) ==
  IF truthy(regulation)
  THEN SelectSeq(df, LAMBDA r : cell_eq(r.Regulation, upper(regulation.s)))
  ELSE df

mcp_exam_type_step(df, exam_type) ==
  IF truthy(exam_type)
  THEN CASE exam_type = S(L_Regular) -> SelectSeq(df, LAMBDA r : cell_eq(r.Exam_Type, L_Regular))
         [] exam_type = S(L_Supplementary) ->
              SelectSeq(df, LAMBDA r : str_contains_nocase(r.Exam_Type, L_supplementary))
         [] OTHER -> df
  ELSE df

mcp_rc_rv_step(df, is_rc_rv) ==
  IF truthy(is_rc_rv)
  THEN CASE is_rc_rv = S(L_Yes) -> SelectSeq(df, LAMBDA r : rc_rv_title(r))
         [] is_rc_rv = S(L_No) -> SelectSeq(df, LAMBDA r : ~rc_rv_title(r))
         [] OTHER -> df
  ELSE df

\* mcp.py filter_results
mcp_filter_results(df, filters) ==
  mcp_rc_rv_step(
    mcp_exam_type_step(
      mcp_regulation_step(
        mcp_semester_step(
          mcp_year_step(
            mcp_degree_step(df, mcp_arg(filters, "degree_type")),
            mcp_arg(filters, "year")),
          mcp_arg(filters, "semester")),
        mcp_arg(filters, "regulation")),
      mcp_arg(filters, "exam_type")),
    mcp_arg(filters, "rc_rv"))

filter_results(e, df, filters) ==
  IF e = "app" THEN app_filter_results(df, filters) ELSE mcp_filter_results(df, filters)

(***************************************************************************)
(* Reference resolution: the parameter mapping posted downstream.          *)
(***************************************************************************)
K_degree == <<"d","e","g","r","e","e">>
K_examCode == <<"e","x","a","m","C","o","d","e">>
K_etype == <<"e","t","y","p","e">>
K_type == <<"t","y","p","e">>
K_result == <<"r","e","s","u","l","t">>
K_grad == <<"g","r","a","d">>
K_htno == <<"h","t","n","o">>
L_null == <<"n","u","l","l">>

\* params = {}
EmptyDict == [k \in {} |-> None]

\* params[key] = value
dict_set(d, key, value) == [k \in (DOMAIN d) \cup {key} |-> IF k = key THEN value ELSE d[k]]

\* for param in query_string.split('&'): if '=' in param: key, value = param.split('=', 1); params[key] = value
RECURSIVE merge_pairs(_, _)
merge_pairs(params, components) ==
  IF components = <<>> THEN params
  ELSE LET kv == split1(Head(components), "=")
       IN  merge_pairs(IF HasChar(Head(components), "=") THEN dict_set(params, kv[1], S(kv[2])) ELSE params,
                       Tail(components))

\* if '?' in url: query_string = url.split('?')[1]; ...
url_params(params, url) ==
  IF HasChar(url, "?")
  THEN merge_pairs(params, split(split(url, "?")[2], "&"))
  ELSE params

\* value if pd.notna(value) else 'null'
or_null(cell) == IF notna(cell) THEN cell ELSE S(L_null)

\* mcp.py: "Always include the basic parameters from the DataFrame"
mcp_seed(row) ==
  dict_set(dict_set(dict_set(dict_set(dict_set(dict_set(EmptyDict,
    K_degree, row.degree),
    K_examCode, row.examCode),
    K_etype, or_null(row.etype)),
    K_type, or_null(row.type)),
    K_result, or_null(row.result)),
    K_grad, or_null(row.grad))

app_params_htno_first(row, htno) == url_params(dict_set(EmptyDict, K_htno, htno), row.URL.s)

\* app.py mcp_generate_result: the mapping posted for a catalog row
app_params(row, htno) == dict_set(url_params(EmptyDict, row.URL.s), K_htno, htno)

\* mcp.py get_result_pdf: the mapping posted for a catalog row
mcp_params(row, htno) == dict_set(url_params(mcp_seed(row), row.URL.s), K_htno, htno)

(***************************************************************************)
(* The downstream endpoint's answer to one POST, and its classification.   *)
(***************************************************************************)
NoRecordsFound == <<"N","o"," ","R","e","c","o","r","d","s"," ","F","o","u","n","d">>
InvalidHallTicketNumber == <<"I","n","v","a","l","i","d"," ","H","a","l","l"," ","T","i","c","k","e","t"," ","N","u","m","b","e","r">>
InvalidHTNO == <<"I","n","v","a","l","i","d"," ","H","T","N","O">>
ResultNotFound == <<"R","e","s","u","l","t"," ","N","o","t"," ","F","o","u","n","d">>

\* requests.post raised (connection error, timeout): no response
ConnError == [kind |-> "error", status_code |-> 0, text |-> <<>>]
Response(code, text) == [kind |-> "response", status_code |-> code, text |-> text]
NoNet == [kind |-> "none", status_code |-> 0, text |-> <<>>]

\* response.raise_for_status() raises HTTPError
raise_for_status(response) == response.status_code >= 400 /\ response.status_code < 600

app_no_records_first_phrase_only(response) == Contains(response.text, NoRecordsFound)

\* app.py: "No Records Found" in response.text or "Invalid Hall Ticket Number" in response.text
app_no_records(response) ==
  Contains(response.text, NoRecordsFound) \/ Contains(response.text, InvalidHallTicketNumber)

\* mcp.py: any(indicator in response.text for indicator in error_indicators)
mcp_no_records(response) ==
  \E indicator \in {NoRecordsFound, InvalidHallTicketNumber, InvalidHTNO, ResultNotFound} :
    Contains(response.text, indicator)

(***************************************************************************)
(* Artifact naming and publishing.                                         *)
(***************************************************************************)
\* the wall-clock date of the run; the clock `now` counts whole seconds since its midnight
BootDate == <<"2","0","2","5","0","8","0","8">>

\* datetime.now().strftime("%Y%m%d_%H%M%S")
strftime(t) ==
  BootDate \o <<"_">> \o Pad2((t \div 3600) % 24) \o Pad2((t \div 60) % 60) \o Pad2(t % 60)

\* f"result_{htno}_{exam_code}_{timestamp}.pdf"
pdf_filename(htno, exam_code, t) ==
  <<"r","e","s","u","l","t","_">> \o py_str(htno) \o <<"_">> \o py_str(exam_code)
    \o <<"_">> \o strftime(t) \o <<".","p","d","f">>

\* HTML(string=response.text).write_pdf(pdf_path): the document rendered from the page
render_pdf(text) == <<"%","P","D","F">> \o text

\* what one call replies, the POSTs it issued and the files it wrote
Reply(status, message, posted, wrote) ==
  [status |-> status, message |-> message, posted |-> posted, wrote |-> wrote]

lookup_contains(df, exam_code) ==
  SelectSeq(df, LAMBDA r : Contains(py_str(r.examCode), py_str(exam_code)))

\* df[df['examCode'].astype(str) == str(exam_code)]
lookup(df, exam_code) == SelectSeq(df, LAMBDA r : py_str(r.examCode) = py_str(exam_code))

Post(params, url) == <<[params |-> params, referer |-> url]>>

\* app.py mcp_generate_result
mcp_generate_result(exam_code, htno, net, render, t) ==
  IF ~truthy(exam_code) \/ ~truthy(htno)
  THEN Reply("error", "examCode and htno are required", <<>>, <<>>)
  ELSE LET result_row == lookup(catalog, exam_code) IN
    IF result_row = <<>>
    THEN Reply("error", "Invalid exam code", <<>>, <<>>)
    ELSE LET posted == Post(app_params(result_row[1], htno), result_row[1].URL.s) IN
      IF net.kind = "error" \/ raise_for_status(net)
      THEN Reply("error", "Failed to fetch results", posted, <<>>)
      ELSE IF app_no_records(net)
      THEN Reply("error", "No records found for this roll number", posted, <<>>)
      ELSE IF ~render
      THEN Reply("error", "str(e)", posted, <<>>)
      ELSE Reply("success", "Result PDF generated successfully", posted,
                 <<[name |-> pdf_filename(htno, exam_code, t), body |-> render_pdf(net.text)]>>)

\* mcp.py get_result_pdf
get_result_pdf(exam_code, htno, net, render, t) ==
  LET result_row == lookup(catalog, exam_code) IN
    IF result_row = <<>>
    THEN Reply("error", "Invalid exam code", <<>>, <<>>)
    ELSE LET posted == Post(mcp_params(result_row[1], htno), result_row[1].URL.s) IN
      IF net.kind = "error"
      THEN Reply("error", "Failed to generate PDF", posted, <<>>)
      ELSE IF mcp_no_records(net)
      THEN Reply("error", "No records found for this roll number", posted, <<>>)
      ELSE IF ~render
      THEN Reply("error", "Failed to generate PDF", posted, <<>>)
      ELSE Reply("success", "Result PDF has been generated successfully", posted,
                 <<[name |-> pdf_filename(htno, exam_code, t), body |-> render_pdf(net.text)]>>)

\* open(pdf_path, 'wb').write(...): creates the file or replaces its content
write_files(fs, wrote) ==
  IF wrote = <<>> THEN fs
  ELSE [f \in (DOMAIN fs) \cup {wrote[1].name} |-> IF f = wrote[1].name THEN wrote[1].body ELSE fs[f]]

(***************************************************************************)
(* Catalogs the process may have loaded.                                   *)
(***************************************************************************)
SearchResultJsp == <<"h","t","t","p",":","/","/","r","e","s","u","l","t","s",".","j","n","t","u","h",".","a","c",".","i","n","/","j","s","p","/","S","e","a","r","c","h","R","e","s","u","l","t",".","j","s","p">>

\* sample_data, row 1: examCode 1866
Row1866 ==
  [Title |-> S(<<"B",".","T","e","c","h"," ","I","V">>),
   URL |-> S(SearchResultJsp \o <<"?","d","e","g","r","e","e","=","b","t","e","c","h","&","e","x","a","m","C","o","d","e","=","1","8","6","6","&","e","t","y","p","e","=","r","1","7","&","t","y","p","e","=","i","n","t","g","r","a","d","e">>),
   Exam_Date |-> S(<<"0","8","-","A","U","G","U","S","T","-","2","0","2","5">>),
   degree |-> S(L_btech), examCode |-> I(1866),
   etype |-> S(<<"r","1","7">>), type |-> S(<<"i","n","t","g","r","a","d","e">>),
   result |-> NaN, grad |-> NaN,
   Regulation |-> S(<<"R","1","8">>), Is_Supplementary |-> S(L_Yes),
   Exam_Type |-> S(L_Supplementary), Year |-> S(<<"I","V">>), Semester |-> S(<<"I">>)]

\* sample_data, row 3: examCode 1868, whose URL names only degree and examCode
Row1868 ==
  [Row1866 EXCEPT
     !.URL = S(SearchResultJsp \o <<"?","d","e","g","r","e","e","=","b","t","e","c","h","&","e","x","a","m","C","o","d","e","=","1","8","6","8">>),
     !.examCode = I(1868), !.etype = NaN, !.type = NaN,
     !.Regulation = S(<<"R","1","5">>)]

\* a row keyed by text, whose URL disagrees with the etype column and carries an htno component
RowText12 ==
  [Row1866 EXCEPT
     !.URL = S(SearchResultJsp \o <<"?","d","e","g","r","e","e","=","b","t","e","c","h","&","e","t","y","p","e","=","r","1","7","&","h","t","n","o","=","X">>),
     !.examCode = S(<<"1","_","2">>), !.etype = S(<<"r","1","8">>)]

\* a row keyed by text, whose URL names only degree and examCode
RowText2 ==
  [Row1866 EXCEPT
     !.URL = S(SearchResultJsp \o <<"?","d","e","g","r","e","e","=","b","t","e","c","h","&","e","x","a","m","C","o","d","e","=","2">>),
     !.examCode = S(<<"2">>), !.etype = NaN, !.type = NaN]

\* a row whose URL has a component without '=', a repeated key and a second '?'
RowQuery ==
  [Row1866 EXCEPT
     !.URL = S(SearchResultJsp \o <<"?","d","e","g","r","e","e","=","b","t","e","c","h","&","f","l","a","g","&","e","t","y","p","e","=","r","1","7","&","e","t","y","p","e","=","r","1","8","?","t","y","p","e","=","a","&","g","r","a","d","=","b">>),
     !.examCode = I(1907)]

SampleCatalog == <<Row1866, Row1868>>
TextCatalog == <<RowText12, RowText2>>
QueryCatalog == <<RowQuery>>

\* the fallback DataFrame(columns=columns) of a failed load is the empty catalog
FetchCatalogs == {<<>>, SampleCatalog, TextCatalog, QueryCatalog}

\* rows that differ in the facets the filter reads
RowBE ==
  [Row1866 EXCEPT
     !.Title = S(<<"B",".","E"," ","r","c","r","v">>), !.degree = S(L_be),
     !.examCode = I(1901), !.Exam_Type = S(<<"R","C","/","R","V"," ","S","u","p","p","l","e","m","e","n","t","a","r","y">>)]

RowBTECH ==
  [Row1866 EXCEPT
     !.Title = S(<<"R","C","/","R","V"," ","B",".","T","e","c","h">>), !.degree = S(<<"B","T","E","C","H">>),
     !.examCode = I(1902), !.Year = S(<<"I","I","I">>)]

RowMTech ==
  [Row1866 EXCEPT
     !.Title = S(<<"M",".","T","e","c","h"," ","I","I">>), !.degree = S(L_mtech),
     !.examCode = I(1872), !.Regulation = S(<<"R","1","9">>), !.Is_Supplementary = S(L_No),
     !.Exam_Type = S(L_Regular), !.Year = S(<<"I","I">>)]

\* a row whose facet cells are empty in the CSV
RowBlank ==
  [Row1866 EXCEPT
     !.Title = NaN, !.degree = NaN, !.examCode = I(1903), !.Regulation = NaN,
     !.Exam_Type = NaN, !.Year = NaN, !.Semester = NaN]

FacetCatalog == <<Row1866, RowBE, RowMTech, RowBTECH, RowBlank>>

SearchCatalogs == {<<>>, SampleCatalog, FacetCatalog}

(***************************************************************************)
(* Inputs of the callers and of the environment.                           *)
(***************************************************************************)
UnknownCode == S(<<"9","9","9","9">>)

\* exam identifiers a caller sends: the stringified catalog keys, an unknown one, an empty one,
\* and for the JSON body of app.py a missing key
ExamInputs ==
  {S(py_str(catalog[i].examCode)) : i \in 1..Len(catalog)} \cup {UnknownCode, S(<<>>)}
    \cup (IF entry = "app" THEN {None} ELSE {})

\* student ids a caller sends; app.py treats the empty id specially, mcp.py treats it as any other
HtnoInputs ==
  {S(<<"A">>), S(<<"A","_","1">>)} \cup (IF entry = "app" THEN {S(<<>>)} ELSE {})

PageA == <<"<","h","t","m","l",">","A","<","/","h","t","m","l",">">>
PageB == <<"<","h","t","m","l",">","B","<","/","h","t","m","l",">">>
PageInvalid == <<"<","p",">">> \o InvalidHallTicketNumber \o <<"<","/","p",">">>
PageNoRecords == <<"<","p",">">> \o NoRecordsFound \o <<"<","/","p",">">>

NetInputs ==
  {ConnError,
   Response(200, PageA), Response(200, PageB),
   Response(200, PageInvalid), Response(500, PageA), Response(500, PageNoRecords)}

\* values a caller sends under each criteria key
FilterOptions ==
  [degree_type |-> {None, S(<<>>), S(L_BTech), S(L_MTech)},
   year |-> {S(<<>>), S(<<"i","v">>)},
   semester |-> {None, S(<<"I">>)},
   regulation |-> {S(<<>>), S(<<"r","1","8">>)},
   exam_type |-> {S(<<>>), S(L_Regular), S(L_Supplementary)},
   rc_rv |-> {None, S(<<>>), S(L_Yes), S(L_No), S(<<"y","e","s">>)}]

\* criteria dictionaries: no key, one key, two keys, or every key sent as null or as empty
FilterInputs ==
  {[k \in {} |-> None], [k \in FilterKeys |-> None], [k \in FilterKeys |-> S(<<>>)]}
    \cup UNION {{k :> v : v \in FilterOptions[k]} : k \in FilterKeys}
    \cup UNION {{(p[1] :> v1) @@ (p[2] :> v2) : v1 \in FilterOptions[p[1]], v2 \in FilterOptions[p[2]]} :
                 p \in {q \in FilterKeys \X FilterKeys : q[1] # q[2]}}

(***************************************************************************)
(* State machine.                                                          *)
(***************************************************************************)
NoCall ==
  [called |-> FALSE, exam_code |-> None, htno |-> None, at |-> 0, net |-> NoNet,
   reply |-> Reply("none", "none", <<>>, <<>>), before |-> <<>>]

NoSearch == [called |-> FALSE, filters |-> <<>>, rows |-> <<>>]

NoFacets == [called |-> FALSE, asked |-> {}, failed |-> FALSE, values |-> <<>>]

InitCommon ==
  /\ entry \in {"app", "mcp"}
  /\ files = <<>>
  /\ now = 0
  /\ ncalls = 0
  /\ last = NoCall
  /\ published = <<>>
  /\ found = NoSearch
  /\ facets = NoFacets

Init ==
  /\ InitCommon
  /\ catalog \in FetchCatalogs

generate(exam_code, htno, net, render, t) ==
  IF entry = "app"
  THEN mcp_generate_result(exam_code, htno, net, render, t)
  ELSE get_result_pdf(exam_code, htno, net, render, t)

\* the answers the network can give to the POST of a call, if the call issues one
NetFor(exam_code, htno) ==
  IF (entry = "app" /\ (~truthy(exam_code) \/ ~truthy(htno))) \/ lookup(catalog, exam_code) = <<>>
  THEN {NoNet}
  ELSE NetInputs

\* whether the renderer succeeds, if the call reaches it
RenderFor(net) ==
  IF net.kind = "response"
     /\ ~(IF entry = "app" THEN raise_for_status(net) \/ app_no_records(net) ELSE mcp_no_records(net))
  THEN BOOLEAN
  ELSE {TRUE}

\* one request to generate_result / one get_result_pdf tool call, served at time now
Generate ==
  /\ ncalls < MaxCalls
  /\ \E exam_code \in ExamInputs, htno \in HtnoInputs :
     \E net \in NetFor(exam_code, htno) :
     \E render \in RenderFor(net) :
       LET r == generate(exam_code, htno, net, render, now) IN
         /\ files' = write_files(files, r.wrote)
         /\ last' = [called |-> TRUE, exam_code |-> exam_code, htno |-> htno, at |-> now,
                     net |-> net, reply |-> r, before |-> files]
         /\ published' = IF r.status = "success"
                         THEN Append(published, [htno |-> htno, exam_code |-> exam_code, at |-> now,
                                                 name |-> r.wrote[1].name, body |-> r.wrote[1].body])
                         ELSE published
  /\ ncalls' = ncalls + 1
  /\ UNCHANGED <<entry, catalog, now, found, facets>>

\* the wall clock reaches the next second
Tick ==
  /\ now < MaxTime
  /\ now' = now + 1
  /\ UNCHANGED <<entry, catalog, files, ncalls, last, published, found, facets>>

Next == Generate \/ Tick

Spec == Init /\ [][Next]_vars

\* one search_results request / one filter_results tool call
Search ==
  /\ ncalls < MaxCalls
  /\ ncalls' = ncalls + 1
  /\ \E filters \in FilterInputs :
       found' = [called |-> TRUE, filters |-> filters, rows |-> filter_results(entry, catalog, filters)]
  /\ UNCHANGED <<entry, catalog, files, now, last, published, facets>>

InitSearch ==
  /\ InitCommon
  /\ catalog \in SearchCatalogs

NextSearch == Search

SpecSearch == InitSearch /\ [][NextSearch]_vars

(***************************************************************************)
(* Facet index: the distinct values advertised for a column.               *)
(***************************************************************************)
AllColumns ==
  {"Title", "URL", "Exam_Date", "degree", "examCode", "etype", "type", "result", "grad",
   "Regulation", "Is_Supplementary", "Exam_Type", "Year", "Semester"}

\* df.columns: the header of the CSV; the fallback frame of a failed load has every column
columns(df) == IF df = <<>> THEN AllColumns ELSE DOMAIN df[1]

\* df[column].dropna(): the cells of the column that are not NaN, in row order
RECURSIVE dropna(_, _)
dropna(df, column) ==
  IF df = <<>> THEN <<>>
  ELSE (IF notna(Head(df)[column]) THEN <<Head(df)[column]>> ELSE <<>>) \o dropna(Tail(df), column)

\* Series.astype(str) / [str(y) for y in ...]
astype_str(values) == [i \in DOMAIN values |-> py_str(values[i])]

\* Series.unique(): each value once, in order of first appearance
unique(values) ==
  SelectSeq([i \in DOMAIN values |-> [v |-> values[i], first |-> \A j \in 1..(i - 1) : values[j] # values[i]]],
            LAMBDA e : e.first)

L_unknown == <<"u","n","k","n","o","w","n">>
L_nan == <<"n","a","n">>

\* app.py get_unique_values(column)
get_unique_values(df, column) ==
  IF column \notin columns(df) THEN <<>>
  ELSE LET values == unique(astype_str(dropna(df, column)))
           kept == SelectSeq(values, LAMBDA e : lower(e.v) \notin {L_unknown, L_nan})
       IN  [i \in DOMAIN kept |-> kept[i].v]

\* the three columns mcp.py get_filter_options reads
OptionColumns == {"Year", "Semester", "Regulation"}

\* one list of mcp.py get_filter_options: results_df[column].dropna().unique().tolist(), then str()
filter_option(df, column) ==
  LET values == unique(dropna(df, column))
  IN  [i \in DOMAIN values |-> py_str(values[i].v)]

\* mcp.py get_filter_options(): results_df[column] raises KeyError for a column the frame lacks
get_filter_options(df) ==
  IF OptionColumns \subseteq columns(df)
  THEN [called |-> TRUE, asked |-> OptionColumns, failed |-> FALSE,
        values |-> [c \in OptionColumns |-> filter_option(df, c)]]
  ELSE [called |-> TRUE, asked |-> OptionColumns, failed |-> TRUE, values |-> <<>>]

\* rows whose facet cells carry the sentinel words in several letter cases, and a repeated value
RowUnknown == [Row1866 EXCEPT !.examCode = I(1904), !.Year = S(<<"U","n","k","n","o","w","n">>)]
RowUNKNOWN ==
  [Row1866 EXCEPT !.examCode = I(1905), !.Year = S(<<"U","N","K","N","O","W","N">>),
                  !.Regulation = S(<<"N","A","N">>)]
RowSem2 == [Row1866 EXCEPT !.examCode = I(1906), !.Year = S(<<"I","I">>), !.Semester = S(<<"I","I">>)]

SentinelCatalog == <<Row1866, RowUnknown, RowSem2, RowUNKNOWN, RowBlank, Row1868>>

\* a CSV whose header has no Semester column
WithoutColumn(row, column) == [c \in (DOMAIN row) \ {column} |-> row[c]]
NoSemesterCatalog == <<WithoutColumn(Row1866, "Semester"), WithoutColumn(RowMTech, "Semester")>>

FacetsCatalogs == {<<>>, SampleCatalog, FacetCatalog, SentinelCatalog, NoSemesterCatalog}

\* column names a caller of get_unique_values passes: every column of the schema and one outside it
ColumnInputs == AllColumns \cup {"Branch"}

\* one call of get_unique_values(column) / one get_filter_options tool call
Facets ==
  /\ ncalls < MaxCalls
  /\ ncalls' = ncalls + 1
  /\ IF entry = "app"
     THEN \E column \in ColumnInputs :
            facets' = [called |-> TRUE, asked |-> {column}, failed |-> FALSE,
                       values |-> (column :> get_unique_values(catalog, column))]
     ELSE facets' = get_filter_options(catalog)
  /\ UNCHANGED <<entry, catalog, files, now, last, published, found>>

InitFacets ==
  /\ InitCommon
  /\ catalog \in FacetsCatalogs

NextFacets == Facets

SpecFacets == InitFacets /\ [][NextFacets]_vars

(***************************************************************************)
(* Properties of the facet index (checked under SpecFacets).               *)
(***************************************************************************)
\* the stored values of a column as text, without the logical nulls
StoredValues(c) == {py_str(catalog[i][c]) : i \in {j \in 1..Len(catalog) : notna(catalog[j][c])}}

IsSentinel(s) == lower(s) \in {L_unknown, L_nan}

\* C11: the advertised distinct values of a column hold no logical null and no "unknown" or
\* "nan" in any letter case, hold every other stored value exactly once, and a column absent
\* from the schema gives the empty list instead of a failure.
C11_DistinctValues ==
  facets.called =>
    /\ ~facets.failed
    /\ \A c \in facets.asked :
         IF c \notin columns(catalog)
         THEN facets.values[c] = <<>>
         ELSE /\ {facets.values[c][i] : i \in 1..Len(facets.values[c])} = {s \in StoredValues(c) : ~IsSentinel(s)}
              /\ Len(facets.values[c]) = Cardinality({s \in StoredValues(c) : ~IsSentinel(s)})


(***************************************************************************)
(* Properties of search (checked under SpecSearch).                        *)
(***************************************************************************)
\* no key of the criteria carries a predicate: each is absent, null or empty
NoPredicate(filters) == \A k \in DOMAIN filters : ~truthy(filters[k])

\* C8: with no predicate set, search returns every catalog row exactly once and in
\* catalog order, and no step changes the stored catalog.
C8_NoPredicateReturnsCatalog ==
  /\ [](found.called /\ NoPredicate(found.filters) => found.rows = catalog)
  /\ [][catalog' = catalog]_vars

C8_Witness ==
  /\ found.called /\ catalog = FacetCatalog
  /\ "year" \in DOMAIN found.filters /\ found.filters["year"] = S(<<>>)
  /\ "degree_type" \in DOMAIN found.filters /\ found.filters["degree_type"] = None
  /\ found.rows = catalog

\* the criteria set the degree-category predicate to "BTech" and nothing else
OnlyBTech(filters) ==
  /\ "degree_type" \in DOMAIN filters /\ filters["degree_type"] = S(L_BTech)
  /\ \A k \in (DOMAIN filters) \ {"degree_type"} : ~truthy(filters[k])

DegreeIsBTechAlias(r) ==
  r.degree.t = "str" /\ lower(r.degree.s) \in {<<"b","t","e","c","h">>, <<"b",".","e">>}

\* C9: the degree-category predicate "BTech" alone returns exactly the rows whose stored
\* degree is "btech" or "b.e" in any letter case, in both entry points.
C9_BTechMatchesAliases ==
  found.called /\ OnlyBTech(found.filters) => found.rows = SelectSeq(catalog, DegreeIsBTechAlias)

\* the criteria with the RC/RV key removed
WithoutRcRv(filters) == [k \in (DOMAIN filters) \ {"rc_rv"} |-> filters[k]]

TitleHasRcRv(r) ==
  r.Title.t = "str"
    /\ (Contains(lower(r.Title.s), <<"r","c","/","r","v">>) \/ Contains(lower(r.Title.s), <<"r","c","r","v">>))

TitleLacksRcRv(r) == ~TitleHasRcRv(r)

\* C10 as stated: an RC/RV predicate with a value other than "Yes" excludes no row, and
\* with "Yes" exactly the rows whose title contains RC/RV or RCRV are kept.
C10_OtherValueIsNoOp ==
  found.called /\ "rc_rv" \in DOMAIN found.filters =>
    found.rows = IF found.filters["rc_rv"] = S(L_Yes)
                 THEN SelectSeq(filter_results(entry, catalog, WithoutRcRv(found.filters)), TitleHasRcRv)
                 ELSE filter_results(entry, catalog, WithoutRcRv(found.filters))

\* C10 amended: as stated for app.py; in mcp.py the value "No" keeps exactly the rows
\* whose title does not contain RC/RV or RCRV, and every value other than "Yes" and
\* "No" excludes no row.
C10_RcRvPredicate ==
  found.called /\ "rc_rv" \in DOMAIN found.filters =>
    found.rows = IF found.filters["rc_rv"] = S(L_Yes)
                 THEN SelectSeq(filter_results(entry, catalog, WithoutRcRv(found.filters)), TitleHasRcRv)
                 ELSE IF entry = "mcp" /\ found.filters["rc_rv"] = S(L_No)
                 THEN SelectSeq(filter_results(entry, catalog, WithoutRcRv(found.filters)), TitleLacksRcRv)
                 ELSE filter_results(entry, catalog, WithoutRcRv(found.filters))

C10_Witness ==
  /\ found.called /\ entry = "mcp" /\ catalog = FacetCatalog
  /\ found.filters = ("rc_rv" :> S(L_No))
  /\ Len(found.rows) = 3
  /\ \A i \in 1..Len(found.rows) : found.rows[i].Title # S(<<"B",".","E"," ","r","c","r","v">>)

(***************************************************************************)
(* Properties of generate (checked under Spec).                            *)
(***************************************************************************)
\* the string form of the identifier equals no catalog row's examCode
UnknownExam(exam_code) ==
  \A i \in 1..Len(catalog) : py_str(catalog[i].examCode) # py_str(exam_code)

\* the call left the set of persisted artifacts and their contents as they were
NoArtifactChange == files = last.before

\* C1 as stated: every call with an identifier that matches no catalog row ends in
\* 'Invalid exam code', issues no POST and creates no artifact.
C1_UnknownExamIsNotFound ==
  last.called /\ UnknownExam(last.exam_code) =>
    /\ last.reply.message = "Invalid exam code"
    /\ last.reply.posted = <<>>
    /\ NoArtifactChange

\* app.py rejects a request whose examCode or htno is missing or empty before the lookup
RejectedAsInvalidRequest ==
  entry = "app" /\ (~truthy(last.exam_code) \/ ~truthy(last.htno))

\* C1 amended: every call with an identifier that matches no catalog row issues no POST
\* and creates no artifact, however often it is repeated; it ends in 'Invalid exam code',
\* except that app.py answers 'examCode and htno are required' when either input is
\* missing or empty.
C1_UnknownExamNeverFetches ==
  last.called /\ UnknownExam(last.exam_code) =>
    /\ last.reply.status = "error"
    /\ last.reply.message = IF RejectedAsInvalidRequest
                            THEN "examCode and htno are required"
                            ELSE "Invalid exam code"
    /\ last.reply.posted = <<>>
    /\ last.reply.wrote = <<>>
    /\ NoArtifactChange

C1_Witness ==
  /\ ncalls >= 2 /\ last.called /\ catalog = SampleCatalog
  /\ last.exam_code = UnknownCode /\ last.htno = S(<<"A">>)
  /\ last.reply.message = "Invalid exam code"
  /\ DOMAIN files = {} /\ published = <<>>

\* the downstream body carries one of the two phrases
PhraseInBody(net) ==
  net.kind = "response"
    /\ (Contains(net.text, InvalidHallTicketNumber) \/ Contains(net.text, NoRecordsFound))

IsNotFoundRecord(reply) == reply.message = "No records found for this roll number"

IsTransportError(reply) == reply.message \in {"Failed to fetch results", "Failed to generate PDF"}

\* C2 as stated: a response body containing "Invalid Hall Ticket Number" or "No Records
\* Found" gives the record-not-found outcome and leaves the artifacts as they were.
C2_PhraseIsNotFoundRecord ==
  last.called /\ PhraseInBody(last.net) =>
    IsNotFoundRecord(last.reply) /\ ~IsTransportError(last.reply) /\ NoArtifactChange

Is2xx(net) == net.status_code >= 200 /\ net.status_code < 300

\* C2 amended: a response with a 2xx status whose body contains one of the phrases gives
\* the record-not-found outcome, not the transport-error outcome; whatever the status,
\* a body containing one of the phrases creates no artifact.
C2_PhraseWith2xxIsNotFoundRecord ==
  last.called /\ PhraseInBody(last.net) =>
    /\ Is2xx(last.net) => IsNotFoundRecord(last.reply) /\ ~IsTransportError(last.reply)
    /\ last.reply.status = "error"
    /\ last.reply.wrote = <<>>
    /\ NoArtifactChange

C2_Witness ==
  /\ last.called /\ last.net = Response(200, PageInvalid)
  /\ IsNotFoundRecord(last.reply)
  /\ Len(last.reply.posted) = 1
  /\ DOMAIN files # {} /\ files = last.before

\* the POST failed at the transport layer: no response, or a response that is not 2xx
TransportFailure(net) ==
  net.kind = "error" \/ (net.kind = "response" /\ ~Is2xx(net))

\* C3: a call whose POST ends in a transport failure ends in TransportError, has issued
\* exactly one POST and creates no artifact, in both entry points.
C3_TransportFailureIsTransportError ==
  last.called /\ TransportFailure(last.net) =>
    /\ IsTransportError(last.reply)
    /\ Len(last.reply.posted) = 1
    /\ NoArtifactChange

SeedKeys == {K_degree, K_examCode, K_etype, K_type, K_result, K_grad}

\* the declared column of a seed key
ColumnOf(row, key) ==
  CASE key = K_degree -> row.degree
    [] key = K_examCode -> row.examCode
    [] key = K_etype -> row.etype
    [] key = K_type -> row.type
    [] key = K_result -> row.result
    [] key = K_grad -> row.grad

\* the pairs of the reference string's query part
ReferencePairs(row) == url_params(EmptyDict, row.URL.s)

\* C4: the posted mapping holds all six keys; a key of the reference string carries the
\* reference value, and a key null in its column and missing from the reference string
\* carries "null".
C4_MappingHasAllSeedKeys ==
  last.called /\ last.reply.posted # <<>> =>
    LET params == last.reply.posted[1].params
        row == lookup(catalog, last.exam_code)[1]
    IN  \A key \in SeedKeys :
          /\ key \in DOMAIN params
          /\ key \in DOMAIN ReferencePairs(row) => params[key] = ReferencePairs(row)[key]
          /\ (key \notin DOMAIN ReferencePairs(row) /\ ~notna(ColumnOf(row, key)))
               => params[key] = S(<<"n","u","l","l">>)

\* C5: two successful calls that differ in student id, or in exam identifier, or are at
\* least one second apart, have different artifact filenames.
C5_FilenamesDistinct ==
  \A i, j \in 1..Len(published) :
    (i < j /\ (\/ published[i].htno # published[j].htno
               \/ py_str(published[i].exam_code) # py_str(published[j].exam_code)
               \/ published[j].at - published[i].at >= 1))
      => published[i].name # published[j].name

\* the first successful call that wrote under this name
FirstWrite(name) ==
  published[CHOOSE i \in 1..Len(published) :
              published[i].name = name /\ \A j \in 1..(i - 1) : published[j].name # name]

\* C6: every artifact once written still exists with the content it was first written
\* with, and each successful fetch created one new artifact.
C6_AppendOnly ==
  /\ \A i \in 1..Len(published) :
       /\ published[i].name \in DOMAIN files
       /\ files[published[i].name] = FirstWrite(published[i].name).body
  /\ Cardinality(DOMAIN files) = Len(published)

\* C7: the posted mapping holds the caller's student identifier under 'htno', also when
\* the reference string has an htno component of its own.
C7_HtnoIsCallers ==
  last.called /\ last.reply.posted # <<>> =>
    /\ K_htno \in DOMAIN last.reply.posted[1].params
    /\ last.reply.posted[1].params[K_htno] = last.htno

C7_Witness ==
  /\ last.called /\ last.reply.posted # <<>>
  /\ Contains(last.reply.posted[1].referer, <<"h","t","n","o","=","X">>)
  /\ last.htno = S(<<"A">>)
  /\ last.reply.posted[1].params[K_htno] = S(<<"A">>)

\* the components, split on '&', of everything after the first '?' of a reference string
ComponentsAfterFirst(url) == split(split1(url, "?")[2], "&")

\* the mapping after merging components into base: a component with '=' gives the pair
\* (text before its first '=', text after it), and the last component naming a key wins
MergedInto(base, comps) ==
  LET pairs == {i \in 1..Len(comps) : HasChar(comps[i], "=")}
      key(i) == split1(comps[i], "=")[1]
      named(k) == {i \in pairs : key(i) = k}
      final(k) == CHOOSE i \in named(k) : \A j \in named(k) : j <= i
  IN  [k \in (DOMAIN base) \cup {key(i) : i \in pairs} |->
         IF named(k) # {} THEN S(split1(comps[final(k)], "=")[2]) ELSE base[k]]

\* the mapping a call starts from, before the reference string is read
BaseParams(row) == IF entry = "app" THEN EmptyDict ELSE mcp_seed(row)

\* C12: for a reference string containing '?', the pairs merged into the posted mapping are
\* those of everything after the first '?', later '?' characters included, split on '&' and
\* then on the first '='; a component without '=' adds nothing and a later component with
\* the same key overwrites an earlier one.
C12_PairsAfterFirstQuestionMark ==
  last.called /\ last.reply.posted # <<>> =>
    LET row == lookup(catalog, last.exam_code)[1]
    IN  HasChar(row.URL.s, "?") =>
          last.reply.posted[1].params =
            dict_set(MergedInto(BaseParams(row), ComponentsAfterFirst(row.URL.s)), K_htno, last.htno)

====
